---- MODULE Spec2Model ----
(***************************************************************************)
(* A model of the GraphRAG front end: its login throttle                   *)
(* (src/frontend/src/auth/security.py, streamlit_entry.py), its            *)
(* query-history persistence and text functions                            *)
(* (src/frontend/src/auth/db.py), its markdown display                     *)
(* (src/frontend/src/components/md_formatter.py), its restricted sections  *)
(* (streamlit_entry.py, app.py) and the external calls of its tabs         *)
(* (src/frontend/src/components/tabs.py).                                  *)
(*                                                                         *)
(* Time is the value time.time() returns, in whole seconds.  A call of a   *)
(* throttle function reads the clock once: the calls are synchronous and   *)
(* take no modelled time.                                                  *)
(***************************************************************************)
EXTENDS Integers, Sequences, FiniteSets, TLC

(***************************************************************************)
(* Program constants                                                       *)
(***************************************************************************)
LOCKOUT_THRESHOLD == 5
LOCKOUT_TIME == 600
salt_rounds == 12

(***************************************************************************)
(* Bounds of the model                                                     *)
(***************************************************************************)
\* The clock advances in steps of TickStep seconds, up to MaxTime.
TickStep == 200
MaxTime == 800
\* record_failed_attempt is not called on a counter that has reached MaxCount.
MaxCount == 6

Usernames == {"alice", "bob"}
\* The worker processes serving the application
Workers == {"w1", "w2"}
Passwords == {"pw1", "pw2"}

NoUser == [username |-> "<none>"]
NoSession == [username |-> "<none>"]

VARIABLES
    now,            \* time.time()
    login_attempts, \* security.login_attempts: username -> {count, last_attempt_time}
    users,          \* the "user-accounts" container: username -> User or NoUser
    session,        \* st.session_state of the browser session
    streak_start,   \* history: per username, {when its counter last left 0}
    blobs,          \* the "query-history" container: blob name -> body, metadata
    saved,          \* history: per blob name, the arguments of its latest save
    input_text,     \* the string argument of the text function under study
    worker_attempts,\* per worker process, that process's security.login_attempts
    page_user,      \* the user object an administrator's page read for its button
    last            \* history: the call that produced this state, and its result

throttle_vars == <<now, login_attempts, users, session, streak_start>>
history_vars == <<blobs, saved>>
study_vars == <<input_text, worker_attempts, page_user>>
vars == <<now, login_attempts, users, session, streak_start, blobs, saved, input_text,
         worker_attempts, page_user, last>>

(***************************************************************************)
(* auth/security.py                                                        *)
(***************************************************************************)
hash_password(password, salt) == [cost |-> salt, of |-> password]

verify_password(stored_password, provided_password) ==
    stored_password.of = provided_password

\* models.User as cb_CreateUser builds it
User(username, password, permissions, graphragindexes) ==
    [id |-> username, username |-> username, salt |-> salt_rounds,
     hashpassword |-> hash_password(password, salt_rounds),
     permissions |-> permissions, graphragindexes |-> graphragindexes,
     accountstatus |-> "Active"]

\* Mutant: a record that is not Active is not returned.
get_user_active(store, username) ==
    IF store[username] # NoUser /\ store[username].accountstatus = "Active"
    THEN store[username]
    ELSE NoUser

get_user(store, username) == store[username]

save_user(store, user) == [store EXCEPT ![user.username] = user]

deactivate_user(store, username) ==
    LET user == get_user(store, username)
    IN  IF user # NoUser
        THEN save_user(store, [user EXCEPT !.accountstatus = "Inactive"])
        ELSE store

activate_user(store, username) ==
    LET user == get_user(store, username)
    IN  IF user # NoUser
        THEN save_user(store, [user EXCEPT !.accountstatus = "Active"])
        ELSE store

delete_user(store, username) == [store EXCEPT ![username] = NoUser]

\* Mutant: the window's last instant counted as inside it.
WindowOpenInclusive(attempts, t) == t - attempts.last_attempt_time <= LOCKOUT_TIME

\* time.time() - attempts["last_attempt_time"] < LOCKOUT_TIME
WindowOpen(attempts, t) == t - attempts.last_attempt_time < LOCKOUT_TIME

\* time.time() - attempts["last_attempt_time"] > LOCKOUT_TIME
WindowPassed(attempts, t) == t - attempts.last_attempt_time > LOCKOUT_TIME

\* Mutant: every failure refreshes the entry's timestamp.
record_failed_attempt_refreshing(table, username, t) ==
    [u \in DOMAIN table \cup {username} |->
        IF u = username
        THEN [count |-> IF u \in DOMAIN table THEN table[u].count + 1 ELSE 1,
              last_attempt_time |-> t]
        ELSE table[u]]

\* The table after the first statement of record_failed_attempt.
record_failed_attempt(table, username, t) ==
    IF username \in DOMAIN table
    THEN [table EXCEPT ![username].count = @ + 1]
    ELSE [u \in DOMAIN table \cup {username} |->
            IF u = username THEN [count |-> 1, last_attempt_time |-> t]
            ELSE table[u]]

\* The second statement of record_failed_attempt, on the updated table.
record_deactivates(table, username, t) ==
    /\ table[username].count >= LOCKOUT_THRESHOLD
    /\ WindowOpen(table[username], t)

\* Mutant: locked only above the threshold.
is_account_locked_above(table, username, t) ==
    /\ username \in DOMAIN table
    /\ table[username].count > LOCKOUT_THRESHOLD
    /\ WindowOpen(table[username], t)

\* What is_account_locked returns.
is_account_locked(table, username, t) ==
    IF username \notin DOMAIN table THEN FALSE
    ELSE IF /\ table[username].count >= LOCKOUT_THRESHOLD
            /\ WindowOpen(table[username], t) THEN TRUE
    ELSE FALSE

\* The table is_account_locked leaves.
is_account_locked_table(table, username, t) ==
    IF username \notin DOMAIN table THEN table
    ELSE IF /\ table[username].count >= LOCKOUT_THRESHOLD
            /\ WindowOpen(table[username], t) THEN table
    ELSE IF WindowPassed(table[username], t)
         THEN [table EXCEPT ![username].count = 0]
    ELSE table

\* Mutant: a reset that clears the whole table.
reset_failed_attempts_clear(table, username) == << >>

reset_failed_attempts(table, username) ==
    IF username \in DOMAIN table
    THEN [table EXCEPT ![username].count = 0]
    ELSE table

\* History: the time of the failure that took each counter from 0 to 1.
Streaks(table) ==
    [u \in Usernames |->
        IF u \in DOMAIN table /\ table[u].count > 0
        THEN IF streak_start[u] = {} THEN {now} ELSE streak_start[u]
        ELSE {}]

CanRecord(table, username) ==
    username \in DOMAIN table => table[username].count < MaxCount

(***************************************************************************)
(* The state after the modules are loaded, with one account provisioned.   *)
(***************************************************************************)
Init ==
    /\ now = 0
    /\ login_attempts = << >>
    /\ users = [u \in Usernames |->
                  IF u = "alice"
                  THEN User("alice", "pw1", {"AllowQuery"}, {"idx1"})
                  ELSE NoUser]
    /\ session = NoSession
    /\ streak_start = [u \in Usernames |-> {}]
    /\ blobs = << >>
    /\ saved = << >>
    /\ input_text = << >>
    /\ worker_attempts = [w \in Workers |-> << >>]
    /\ page_user = NoUser
    /\ last = [op |-> "init", user |-> "<none>", ret |-> "<none>"]

Tick ==
    /\ now + TickStep <= MaxTime
    /\ now' = now + TickStep
    /\ last' = [op |-> "tick", user |-> "<none>", ret |-> "<none>"]
    /\ UNCHANGED <<login_attempts, users, session, streak_start, blobs, saved, study_vars>>

RecordFailedAttempt(username) ==
    /\ CanRecord(login_attempts, username)
    /\ LET table == record_failed_attempt(login_attempts, username, now)
           locks == record_deactivates(table, username, now)
       IN  /\ login_attempts' = table
           /\ users' = IF locks THEN deactivate_user(users, username) ELSE users
           /\ streak_start' = Streaks(table)
           /\ last' = [op |-> "record_failed_attempt", user |-> username,
                       ret |-> "<none>"]
    /\ UNCHANGED <<now, session, blobs, saved, study_vars>>

\* Mutant: clearing an expired window also reactivates the account.
IsAccountLockedReactivating(username) ==
    /\ login_attempts' = is_account_locked_table(login_attempts, username, now)
    /\ users' = IF login_attempts' # login_attempts
                THEN activate_user(users, username) ELSE users
    /\ streak_start' = Streaks(login_attempts')
    /\ last' = [op |-> "is_account_locked", user |-> username,
                ret |-> is_account_locked(login_attempts, username, now)]
    /\ UNCHANGED <<now, session, blobs, saved, study_vars>>

IsAccountLocked(username) ==
    /\ login_attempts' = is_account_locked_table(login_attempts, username, now)
    /\ streak_start' = Streaks(login_attempts')
    /\ last' = [op |-> "is_account_locked", user |-> username,
                ret |-> is_account_locked(login_attempts, username, now)]
    /\ UNCHANGED <<now, users, session, blobs, saved, study_vars>>

ResetFailedAttempts(username) ==
    /\ login_attempts' = reset_failed_attempts(login_attempts, username)
    /\ streak_start' = Streaks(login_attempts')
    /\ last' = [op |-> "reset_failed_attempts", user |-> username,
                ret |-> "<none>"]
    /\ UNCHANGED <<now, users, session, blobs, saved, study_vars>>

\* Mutant: the lock is evaluated before the user record is looked at.
LoginEvaluatesLockAlways(user) == TRUE

\* Mutant: login() never asks the throttle.
LoginEvaluatesLockNever(user) == FALSE

\* Whether login() goes on to call is_account_locked: `not user or ...`
\* evaluates its right operand only when a user record was found.
LoginEvaluatesLock(user) == user # NoUser

\* streamlit_entry.login, on a submitted form.  The login page is the only
\* page while "username" is not in st.session_state.
\* The history records whether the run reached verify_password and, after
\* a failure, the number the "attempts left" message shows.
Login(username, password) ==
    /\ session = NoSession
    /\ LET user == get_user(users, username)
           evaluated == LoginEvaluatesLock(user)
           locked == evaluated /\ is_account_locked(login_attempts, username, now)
           table1 == IF evaluated
                     THEN is_account_locked_table(login_attempts, username, now)
                     ELSE login_attempts
       IN  IF user = NoUser \/ locked
           THEN /\ login_attempts' = table1
                /\ last' = [op |-> "login", user |-> username,
                            ret |-> "Account locked or invalid credentials",
                            password |-> password, verified |-> FALSE]
                /\ UNCHANGED <<users, session>>
           ELSE IF verify_password(user.hashpassword, password)
           THEN /\ login_attempts' = reset_failed_attempts(table1, username)
                /\ session' = [username |-> username,
                               permissions |-> user.permissions,
                               graphragindexes |-> user.graphragindexes]
                /\ last' = [op |-> "login", user |-> username,
                            ret |-> "Login successful",
                            password |-> password, verified |-> TRUE]
                /\ UNCHANGED users
           ELSE /\ CanRecord(table1, username)
                /\ LET table2 == record_failed_attempt(table1, username, now)
                   IN  /\ login_attempts' = table2
                       /\ users' = IF record_deactivates(table2, username, now)
                                   THEN deactivate_user(users, username)
                                   ELSE users
                /\ last' = [op |-> "login", user |-> username,
                            ret |-> "Invalid credentials",
                            password |-> password, verified |-> TRUE,
                            left |-> LOCKOUT_THRESHOLD
                                        - login_attempts'[username].count]
                /\ UNCHANGED session
    /\ streak_start' = Streaks(login_attempts')
    /\ UNCHANGED <<now, blobs, saved, study_vars>>

\* streamlit_entry.logout
Logout ==
    /\ session # NoSession
    /\ session' = NoSession
    /\ last' = [op |-> "logout", user |-> "<none>", ret |-> "<none>"]
    /\ UNCHANGED <<now, login_attempts, users, streak_start, blobs, saved, study_vars>>

\* Mutant: the unlock also clears the username's failure counter.
CbUnlockAccountResetting(username) ==
    /\ LET user == get_user(users, username)
       IN  /\ user # NoUser
           /\ user.accountstatus # "Active"
           /\ users' = save_user(users, [user EXCEPT !.accountstatus = "Active"])
    /\ login_attempts' = reset_failed_attempts(login_attempts, username)
    /\ streak_start' = Streaks(login_attempts')
    /\ last' = [op |-> "cb_unlock_account", user |-> username, ret |-> "<none>"]
    /\ UNCHANGED <<now, session, blobs, saved, study_vars>>

\* The administrator's "Unlock Account" page and its button: the page reads
\* the user and offers the button unless the account is already active.
CbUnlockAccount(username) ==
    /\ LET user == get_user(users, username)
       IN  /\ user # NoUser
           /\ user.accountstatus # "Active"
           /\ users' = save_user(users, [user EXCEPT !.accountstatus = "Active"])
    /\ last' = [op |-> "cb_unlock_account", user |-> username, ret |-> "<none>"]
    /\ UNCHANGED <<now, login_attempts, session, streak_start, blobs, saved, study_vars>>

\* The administrator's "Create User" form.
CbCreateUser(username, password) ==
    /\ users' = save_user(users, User(username, password, {"AllowQuery"}, {"idx1"}))
    /\ last' = [op |-> "cb_CreateUser", user |-> username, ret |-> "<none>"]
    /\ UNCHANGED <<now, login_attempts, session, streak_start, blobs, saved, study_vars>>

\* The administrator's "Delete User" page and its button.
CbDeleteUser(username) ==
    /\ get_user(users, username) # NoUser
    /\ users' = delete_user(users, username)
    /\ last' = [op |-> "cb_DeleteUser", user |-> username, ret |-> "<none>"]
    /\ UNCHANGED <<now, login_attempts, session, streak_start, blobs, saved, study_vars>>

\* Any caller of the throttle's functions, any username, any timing.
Next ==
    \/ Tick
    \/ \E u \in Usernames : RecordFailedAttempt(u)
    \/ \E u \in Usernames : IsAccountLocked(u)
    \/ \E u \in Usernames : ResetFailedAttempts(u)
    \/ \E u \in Usernames : CbUnlockAccount(u)

Spec == Init /\ [][Next]_vars

\* The throttle as the pages drive it: the login form and the administrator.
NextLogin ==
    \/ Tick
    \/ \E u \in Usernames, p \in Passwords : Login(u, p)
    \/ Logout
    \/ \E u \in Usernames : CbUnlockAccount(u)
    \/ \E u \in Usernames : CbCreateUser(u, "pw1")
    \/ \E u \in Usernames : CbDeleteUser(u)

SpecLogin == Init /\ [][NextLogin]_vars

\* The login form alone, at any time, with the logout that brings the form
\* back after a successful login.
NextLoginForm ==
    \/ Tick
    \/ \E u \in Usernames, p \in Passwords : Login(u, p)
    \/ Logout

SpecLoginForm == Init /\ [][NextLoginForm]_vars

(***************************************************************************)
(* auth/db.py: query-history persistence.  A text is a sequence of          *)
(* characters; a history record is a sequence of <<key, value>> pairs in    *)
(* the dict's insertion order; a history is a sequence of records.          *)
(***************************************************************************)
Quote == "\""
Backslash == "\\"
Newline == "\n"
Space == " "
Whitespace == {Space, Newline, "\t"}
\* The non-ASCII characters of the model's alphabet, with the four hex
\* digits json writes for each under ensure_ascii.
NonAscii == {"U+00E9"}
CodePoint(c) == IF c = "U+00E9" THEN <<"0", "0", "e", "9">> ELSE <<"f", "f", "f", "d">>

RECURSIVE Join(_, _)
\* sep.join(parts)
Join(parts, sep) ==
    IF parts = << >> THEN << >>
    ELSE IF Len(parts) = 1 THEN parts[1]
    ELSE parts[1] \o sep \o Join(Tail(parts), sep)

\* json's encoding of one character of a string.
EscapeChar(c) ==
    IF c = Quote THEN <<Backslash, Quote>>
    ELSE IF c = Backslash THEN <<Backslash, Backslash>>
    ELSE IF c = Newline THEN <<Backslash, "n">>
    ELSE IF c = "\t" THEN <<Backslash, "t">>
    ELSE IF c \in NonAscii THEN <<Backslash, "u">> \o CodePoint(c)
    ELSE <<c>>

RECURSIVE EscapeText(_)
EscapeText(text) ==
    IF text = << >> THEN << >>
    ELSE EscapeChar(Head(text)) \o EscapeText(Tail(text))

dumps_str(text) == <<Quote>> \o EscapeText(text) \o <<Quote>>

dumps_dict(record) ==
    <<"{">>
    \o Join([i \in 1..Len(record) |->
                dumps_str(record[i][1]) \o <<":", Space>> \o dumps_str(record[i][2])],
            <<",", Space>>)
    \o <<"}">>

\* json.dumps(query_histories), with json's default separators
json_dumps(query_histories) ==
    <<"[">>
    \o Join([i \in 1..Len(query_histories) |-> dumps_dict(query_histories[i])],
            <<",", Space>>)
    \o <<"]">>

\* json.loads: a recursive-descent reading of the text.  Every reader
\* returns [ok, val, rest]; ok = FALSE is json.JSONDecodeError.
ParseError == [ok |-> FALSE, val |-> << >>, rest |-> << >>]
Parsed(val, rest) == [ok |-> TRUE, val |-> val, rest |-> rest]

RECURSIVE SkipWhitespace(_)
SkipWhitespace(cs) ==
    IF cs # << >> /\ Head(cs) \in Whitespace THEN SkipWhitespace(Tail(cs)) ELSE cs

Drop(cs, n) == SubSeq(cs, n + 1, Len(cs))

RECURSIVE ScanStr(_, _)
\* The characters of a string up to its closing quote, escapes decoded.
ScanStr(cs, acc) ==
    IF cs = << >> THEN ParseError
    ELSE IF Head(cs) = Quote THEN Parsed(acc, Tail(cs))
    ELSE IF Head(cs) = Newline \/ Head(cs) = "\t" THEN ParseError
    ELSE IF Head(cs) # Backslash THEN ScanStr(Tail(cs), Append(acc, Head(cs)))
    ELSE IF Len(cs) < 2 THEN ParseError
    ELSE IF cs[2] \in {Quote, Backslash} THEN ScanStr(Drop(cs, 2), Append(acc, cs[2]))
    ELSE IF cs[2] = "n" THEN ScanStr(Drop(cs, 2), Append(acc, Newline))
    ELSE IF cs[2] = "t" THEN ScanStr(Drop(cs, 2), Append(acc, "\t"))
    ELSE IF cs[2] = "u" /\ Len(cs) >= 6
         /\ \E c \in NonAscii : CodePoint(c) = SubSeq(cs, 3, 6)
    THEN ScanStr(Drop(cs, 6),
                 Append(acc, CHOOSE c \in NonAscii : CodePoint(c) = SubSeq(cs, 3, 6)))
    ELSE ParseError

loads_str(cs) ==
    IF cs # << >> /\ Head(cs) = Quote THEN ScanStr(Tail(cs), << >>) ELSE ParseError

RECURSIVE loads_pairs(_, _)
\* The "key": "value" pairs of an object after its opening brace.
loads_pairs(cs, acc) ==
    LET key == loads_str(SkipWhitespace(cs))
        colon == SkipWhitespace(key.rest)
        value == loads_str(SkipWhitespace(Tail(colon)))
        after == SkipWhitespace(value.rest)
    IN  IF ~key.ok \/ colon = << >> \/ Head(colon) # ":" THEN ParseError
        ELSE IF ~value.ok \/ after = << >> THEN ParseError
        ELSE IF Head(after) = "}"
        THEN Parsed(Append(acc, <<key.val, value.val>>), Tail(after))
        ELSE IF Head(after) = ","
        THEN loads_pairs(Tail(after), Append(acc, <<key.val, value.val>>))
        ELSE ParseError

loads_dict(cs) ==
    IF cs = << >> \/ Head(cs) # "{" THEN ParseError
    ELSE LET inner == SkipWhitespace(Tail(cs))
         IN  IF inner # << >> /\ Head(inner) = "}" THEN Parsed(<< >>, Tail(inner))
             ELSE loads_pairs(inner, << >>)

RECURSIVE loads_items(_, _)
\* The objects of an array after its opening bracket.
loads_items(cs, acc) ==
    LET item == loads_dict(SkipWhitespace(cs))
        after == SkipWhitespace(item.rest)
    IN  IF ~item.ok \/ after = << >> THEN ParseError
        ELSE IF Head(after) = "]" THEN Parsed(Append(acc, item.val), Tail(after))
        ELSE IF Head(after) = "," THEN loads_items(Tail(after), Append(acc, item.val))
        ELSE ParseError

\* json.loads(text) for the texts this model stores: arrays of objects of strings
json_loads(text) ==
    LET cs == SkipWhitespace(text)
        inner == SkipWhitespace(Tail(cs))
        array == IF cs = << >> \/ Head(cs) # "[" THEN ParseError
                 ELSE IF inner # << >> /\ Head(inner) = "]"
                 THEN Parsed(<< >>, Tail(inner))
                 ELSE loads_items(inner, << >>)
    IN  IF array.ok /\ SkipWhitespace(array.rest) = << >> THEN array ELSE ParseError

\* The metadata length cap, sanitize_metadata_value's max_length
max_length == 1024
\* truncateText's default length
default_length == 200

\* Mutant: no lower limit on the length.
truncateText_unguarded(inputText, length) ==
    IF Len(inputText) > length
    THEN SubSeq(inputText, 1, length) \o <<".", ".", ".">>
    ELSE inputText

truncateText(inputText, length) ==
    IF length > 50 /\ Len(inputText) > length
    THEN SubSeq(inputText, 1, length) \o <<".", ".", ".">>
    ELSE inputText

RECURSIVE rstrip(_)
rstrip(text) ==
    IF text # << >> /\ text[Len(text)] \in Whitespace
    THEN rstrip(SubSeq(text, 1, Len(text) - 1))
    ELSE text

\* value.strip()
strip(text) == rstrip(SkipWhitespace(text))

\* re.sub(r"\s+", " ", text): each run of whitespace becomes one space.  The
\* characters kept are those that are not whitespace and those that start a
\* run.
collapse_whitespace(text) ==
    LET StartsRun(i) == text[i] \in Whitespace => (i = 1 \/ text[i - 1] \notin Whitespace)
        kept == SelectSeq([i \in 1..Len(text) |-> i], StartsRun)
    IN  [k \in 1..Len(kept) |->
            IF text[kept[k]] \in Whitespace THEN Space ELSE text[kept[k]]]

IsAscii(c) == c \notin NonAscii

\* text.encode("ascii", "ignore").decode()
ascii_ignore(text) == SelectSeq(text, IsAscii)

sanitize_metadata_value(value) ==
    LET sanitized_value == ascii_ignore(collapse_whitespace(strip(value)))
    IN  IF Len(sanitized_value) > max_length
        THEN SubSeq(sanitized_value, 1, max_length)
        ELSE sanitized_value

\* str(value), for the str arguments the signature declares
str(value) == value

\* md_formatter.escape_special_chars with its default chars_to_escape
RECURSIVE escape_special_chars(_)
escape_special_chars(text) ==
    IF text = << >> THEN << >>
    ELSE (IF Head(text) = "$" THEN <<Backslash, "$">> ELSE <<Head(text)>>)
         \o escape_special_chars(Tail(text))

\* The metadata dict save_query_histories builds.
Metadata(lastquerytime, lastquerycontent, lastqueryindexes, lastqueryType, lastanswercontent) ==
    [lastquerytime |-> str(lastquerytime),
     lastquerycontent |->
        sanitize_metadata_value(truncateText(lastquerycontent, default_length)),
     lastqueryindexes |-> str(lastqueryindexes),
     lastqueryType |-> str(lastqueryType),
     lastanswercontent |->
        sanitize_metadata_value(truncateText(lastanswercontent, default_length))]

\* blob_client.upload_blob(body, overwrite=True, metadata=metadata)
upload_blob(store, blob_name, body, metadata) ==
    [b \in DOMAIN store \cup {blob_name} |->
        IF b = blob_name THEN [body |-> body, metadata |-> metadata] ELSE store[b]]

\* Mutant: the body is stored as the display layer would show it.
save_query_histories_escaped(store, blob_name, query_histories, lastquerytime, lastquerycontent, lastqueryindexes, lastqueryType, lastanswercontent) ==
    upload_blob(store, blob_name,
                json_dumps([i \in 1..Len(query_histories) |->
                              [j \in 1..Len(query_histories[i]) |->
                                 <<query_histories[i][j][1],
                                   escape_special_chars(query_histories[i][j][2])>>]]),
                Metadata(lastquerytime, lastquerycontent, lastqueryindexes,
                         lastqueryType, lastanswercontent))

\* Mutant: the abandoned chunked path, one chunk.
save_query_histories_chunked(store, blob_name, query_histories, lastquerytime, lastquerycontent, lastqueryindexes, lastqueryType, lastanswercontent) ==
    upload_blob(store, blob_name \o "_chunk_" \o ToString(0),
                json_dumps(query_histories),
                Metadata(lastquerytime, lastquerycontent, lastqueryindexes,
                         lastqueryType, lastanswercontent))

\* The container after save_query_histories.
save_query_histories(store, blob_name, query_histories, lastquerytime, lastquerycontent, lastqueryindexes, lastqueryType, lastanswercontent) ==
    upload_blob(store, blob_name, json_dumps(query_histories),
                Metadata(lastquerytime, lastquerycontent, lastqueryindexes,
                         lastqueryType, lastanswercontent))

\* The exception classes the try block of load_query_histories can raise:
\* download_blob on a missing blob, download_blob or readall failing on an
\* existing one, json.loads on a body that is not JSON.
LoadExceptions == {"ResourceNotFoundError", "HttpResponseError", "JSONDecodeError"}

\* What the try block raises, or "none"; download_ok = FALSE is a download
\* that raises although the blob exists.
load_raises(store, blob_name, download_ok) ==
    IF blob_name \notin DOMAIN store THEN "ResourceNotFoundError"
    ELSE IF ~download_ok THEN "HttpResponseError"
    ELSE IF ~json_loads(store[blob_name].body).ok THEN "JSONDecodeError"
    ELSE "none"

\* Mutant: the handler catches the missing blob only.
load_catches_not_found(exc) == exc = "ResourceNotFoundError"

\* except Exception: every class above derives from Exception.
load_catches(exc) == exc \in LoadExceptions

\* The exception that leaves load_query_histories, or "none".
load_propagates(store, blob_name, download_ok) ==
    LET exc == load_raises(store, blob_name, download_ok)
    IN  IF exc = "none" \/ load_catches(exc) THEN "none" ELSE exc

\* What load_query_histories returns.
load_query_histories(store, blob_name, download_ok) ==
    IF load_raises(store, blob_name, download_ok) # "none" THEN << >>
    ELSE json_loads(store[blob_name].body).val

(***************************************************************************)
(* The inputs of the history model                                         *)
(***************************************************************************)
MaxHistory == 2

BlobNames == {"alice__s1", "alice__s2"}
content == <<"c", "o", "n", "t", "e", "n", "t">>
Records ==
    { << <<content, <<"h", "i", Space, "$", "5", Quote, Backslash, "n", Newline,
                      "U+00E9">>>> >>,
      << <<<<"r", "o", "l", "e">>, <<"u", "s", "e", "r">>>>, <<content, << >>>> >> }
Histories == UNION {[1..n -> Records] : n \in 0..MaxHistory}
\* The last query is the text of the history's latest record.
LastQuery(query_histories) ==
    IF query_histories = << >> THEN << >>
    ELSE LET record == query_histories[Len(query_histories)]
         IN  record[Len(record)][2]
Answer == <<"c", "a", "f", "U+00E9", Space, "x", Newline>>
Stamp == <<"2", "0", "2", "4">>
Indexes == <<"i", "d", "x", "1">>
QueryType == <<"G", "l", "o", "b", "a", "l">>

\* A caller saves a history under a blob name.
SaveQueryHistories(blob_name, query_histories, lastquerycontent, lastanswercontent) ==
    /\ blobs' = save_query_histories(blobs, blob_name, query_histories, Stamp,
                                     lastquerycontent, Indexes, QueryType,
                                     lastanswercontent)
    /\ saved' = [b \in DOMAIN saved \cup {blob_name} |->
                   IF b = blob_name
                   THEN [query_histories |-> query_histories,
                         lastquerytime |-> Stamp,
                         lastquerycontent |-> lastquerycontent,
                         lastqueryindexes |-> Indexes,
                         lastqueryType |-> QueryType,
                         lastanswercontent |-> lastanswercontent]
                   ELSE saved[b]]
    /\ last' = [op |-> "save_query_histories", user |-> blob_name,
                ret |-> IF blob_name \in DOMAIN blobs THEN "overwritten"
                        ELSE "created"]
    /\ UNCHANGED <<throttle_vars, study_vars>>

\* The query-history tab loads the selected history.
LoadQueryHistories(blob_name, download_ok) ==
    /\ last' = [op |-> "load_query_histories", user |-> blob_name,
                ret |-> load_query_histories(blobs, blob_name, download_ok),
                fault |-> ~download_ok,
                raised |-> load_propagates(blobs, blob_name, download_ok)]
    /\ UNCHANGED <<throttle_vars, history_vars, study_vars>>

NextHistory ==
    \/ \E b \in BlobNames, h \in Histories :
          SaveQueryHistories(b, h, LastQuery(h), Answer)
    \/ \E b \in BlobNames, ok \in BOOLEAN : LoadQueryHistories(b, ok)

SpecHistory == Init /\ [][NextHistory]_vars

\* Bodies another writer of the container can leave: an empty body, an
\* array cut off in the middle of a record, a text that is not JSON.
ForeignBodies ==
    { << >>,
      <<"[", "{", Quote, "c", Quote, ":", Space, Quote, "h">>,
      <<"h", "i">> }

\* The container is shared storage: another writer uploads a body.
ForeignUpload(blob_name, body) ==
    /\ blobs' = upload_blob(blobs, blob_name, body,
                            Metadata(<< >>, << >>, << >>, << >>, << >>))
    /\ last' = [op |-> "foreign_upload", user |-> blob_name, ret |-> "<none>"]
    /\ UNCHANGED <<throttle_vars, saved, study_vars>>

NextStore ==
    \/ \E b \in BlobNames, h \in Histories :
          SaveQueryHistories(b, h, LastQuery(h), Answer)
    \/ \E b \in BlobNames, ok \in BOOLEAN : LoadQueryHistories(b, ok)
    \/ \E b \in BlobNames, body \in ForeignBodies : ForeignUpload(b, body)

SpecStore == Init /\ [][NextStore]_vars

(***************************************************************************)
(* The text functions of auth/db.py, applied to an argument                *)
(***************************************************************************)
\* Arguments are a run of PadLength filler characters followed by up to
\* MaxText characters of the alphabet.
MaxText == 3
Alphabet == {"a", Space, "U+00E9"}
PadLengths == {0, 60, 300, max_length - 2}
Lengths == {0, 2, 50, 51, default_length, 300}
ShortTexts == UNION {[1..n -> Alphabet] : n \in 0..MaxText}
Pad(n) == [i \in 1..n |-> "a"]
Texts == {Pad(n) \o s : n \in PadLengths, s \in ShortTexts}

MetadataFields ==
    {"lastquerytime", "lastquerycontent", "lastqueryindexes", "lastqueryType",
     "lastanswercontent"}

InitText ==
    /\ now = 0
    /\ login_attempts = << >>
    /\ users = [u \in Usernames |-> NoUser]
    /\ session = NoSession
    /\ streak_start = [u \in Usernames |-> {}]
    /\ blobs = << >>
    /\ saved = << >>
    /\ input_text \in Texts
    /\ worker_attempts = [w \in Workers |-> << >>]
    /\ page_user = NoUser
    /\ last = [op |-> "init", user |-> "<none>", ret |-> "<none>"]

SanitizeMetadataValue ==
    /\ last' = [op |-> "sanitize_metadata_value", user |-> "<none>",
                ret |-> sanitize_metadata_value(input_text)]
    /\ UNCHANGED <<throttle_vars, history_vars, study_vars>>

TruncateText(length) ==
    /\ last' = [op |-> "truncateText", user |-> "<none>",
                ret |-> truncateText(input_text, length), length |-> length]
    /\ UNCHANGED <<throttle_vars, history_vars, study_vars>>

\* A caller saves an empty history and passes the argument as one of the
\* five metadata arguments, with empty strings as the other four.
SaveWithArgument(blob_name, field) ==
    LET args == [f \in MetadataFields |-> IF f = field THEN input_text ELSE << >>]
    IN  /\ blobs' = save_query_histories(blobs, blob_name, << >>,
                        args.lastquerytime, args.lastquerycontent,
                        args.lastqueryindexes, args.lastqueryType,
                        args.lastanswercontent)
        /\ saved' = [b \in DOMAIN saved \cup {blob_name} |->
                       IF b = blob_name
                       THEN [query_histories |-> << >>,
                             lastquerytime |-> args.lastquerytime,
                             lastquerycontent |-> args.lastquerycontent,
                             lastqueryindexes |-> args.lastqueryindexes,
                             lastqueryType |-> args.lastqueryType,
                             lastanswercontent |-> args.lastanswercontent]
                       ELSE saved[b]]
        /\ last' = [op |-> "save_query_histories", user |-> blob_name,
                    ret |-> field]
        /\ UNCHANGED <<throttle_vars, study_vars>>

NextText ==
    \/ SanitizeMetadataValue
    \/ \E length \in Lengths : TruncateText(length)
    \/ \E field \in MetadataFields : SaveWithArgument("alice__s1", field)

SpecText == InitText /\ [][NextText]_vars

(***************************************************************************)
(* components/md_formatter.py                                              *)
(*                                                                         *)
(* A text is a sequence of characters; a run of letters that no function   *)
(* looks inside ("title", "### ") is written as one element.  The texts    *)
(* hold no backslash and no double quote.                                  *)
(***************************************************************************)
Apostrophe == "'"
Digits == {"0", "1", "2", "3", "4", "5", "6", "7", "8", "9"}
Delimiters == {"[", "]", "{", "}", "(", ")", ",", ":", Apostrophe}
IsNameChar(c) == c \notin Delimiters \cup Whitespace \cup Digits \cup {"$", Quote, Backslash}

\* Python values, and the syntax nodes ast.parse builds for them
PyInt(digits) == [kind |-> "int", v |-> digits]
PyStr(chars) == [kind |-> "str", v |-> chars]
PyName(word) == [kind |-> "name", v |-> <<word>>]
PyList(items) == [kind |-> "list", v |-> items]
PyTuple(items) == [kind |-> "tuple", v |-> items]
PySet(items) == [kind |-> "set", v |-> items]
PyDict(pairs) == [kind |-> "dict", v |-> pairs]

RECURSIVE ScanDigits(_, _)
ScanDigits(cs, acc) ==
    IF cs # << >> /\ Head(cs) \in Digits
    THEN ScanDigits(Tail(cs), Append(acc, Head(cs)))
    ELSE Parsed(PyInt(acc), cs)

RECURSIVE ScanQuoted(_, _)
\* The characters of a string literal up to its closing apostrophe.
ScanQuoted(cs, acc) ==
    IF cs = << >> \/ Head(cs) = Newline THEN ParseError
    ELSE IF Head(cs) = Apostrophe THEN Parsed(PyStr(acc), Tail(cs))
    ELSE ScanQuoted(Tail(cs), Append(acc, Head(cs)))

RECURSIVE py_value(_)
RECURSIVE py_items(_, _, _, _)
RECURSIVE py_pairs(_, _)

\* The expressions up to the closing bracket, and whether a comma was seen.
py_items(cs, close, acc, comma) ==
    LET s == SkipWhitespace(cs)
        item == py_value(s)
        after == SkipWhitespace(item.rest)
    IN  IF s = << >> THEN ParseError
        ELSE IF Head(s) = close
        THEN Parsed([items |-> acc, comma |-> comma], Tail(s))
        ELSE IF ~item.ok \/ after = << >> THEN ParseError
        ELSE IF Head(after) = close
        THEN Parsed([items |-> Append(acc, item.val), comma |-> comma], Tail(after))
        ELSE IF Head(after) = ","
        THEN py_items(Tail(after), close, Append(acc, item.val), TRUE)
        ELSE ParseError

\* The key: value pairs up to the closing brace.
py_pairs(cs, acc) ==
    LET s == SkipWhitespace(cs)
        key == py_value(s)
        colon == SkipWhitespace(key.rest)
        value == py_value(Tail(colon))
        after == SkipWhitespace(value.rest)
    IN  IF s = << >> THEN ParseError
        ELSE IF Head(s) = "}" THEN Parsed(acc, Tail(s))
        ELSE IF ~key.ok \/ colon = << >> \/ Head(colon) # ":" THEN ParseError
        ELSE IF ~value.ok \/ after = << >> THEN ParseError
        ELSE IF Head(after) = "}"
        THEN Parsed(Append(acc, <<key.val, value.val>>), Tail(after))
        ELSE IF Head(after) = ","
        THEN py_pairs(Tail(after), Append(acc, <<key.val, value.val>>))
        ELSE ParseError

\* A display after its opening brace: the empty dict, a dict or a set.
py_braces(cs) ==
    LET s == SkipWhitespace(cs)
        dict == py_pairs(s, << >>)
        set == py_items(s, "}", << >>, FALSE)
    IN  IF s = << >> THEN ParseError
        ELSE IF Head(s) = "}" THEN Parsed(PyDict(<< >>), Tail(s))
        ELSE IF dict.ok THEN Parsed(PyDict(dict.val), dict.rest)
        ELSE IF set.ok THEN Parsed(PySet(set.val.items), set.rest)
        ELSE ParseError

\* One expression: a number, a string, a name, a list, a parenthesised
\* expression or tuple, a dict or a set.
py_value(cs) ==
    LET s == SkipWhitespace(cs)
        list == py_items(Tail(s), "]", << >>, FALSE)
        tuple == py_items(Tail(s), ")", << >>, FALSE)
    IN  IF s = << >> THEN ParseError
        ELSE IF Head(s) \in Digits THEN ScanDigits(s, << >>)
        ELSE IF Head(s) = Apostrophe THEN ScanQuoted(Tail(s), << >>)
        ELSE IF Head(s) = "[" THEN
            IF list.ok THEN Parsed(PyList(list.val.items), list.rest) ELSE ParseError
        ELSE IF Head(s) = "(" THEN
            IF ~tuple.ok THEN ParseError
            ELSE IF Len(tuple.val.items) = 1 /\ ~tuple.val.comma
            THEN Parsed(tuple.val.items[1], tuple.rest)
            ELSE Parsed(PyTuple(tuple.val.items), tuple.rest)
        ELSE IF Head(s) = "{" THEN py_braces(Tail(s))
        ELSE IF IsNameChar(Head(s)) THEN Parsed(PyName(Head(s)), Tail(s))
        ELSE ParseError

\* ast.parse(text, mode="eval"): the tree, or not ok for a SyntaxError
ast_parse(text) ==
    LET tree == py_value(text)
    IN  IF tree.ok /\ SkipWhitespace(tree.rest) = << >> THEN tree ELSE ParseError

RECURSIVE Hashable(_)
Hashable(value) ==
    \/ value.kind \in {"int", "str"}
    \/ /\ value.kind = "tuple"
       /\ \A i \in 1..Len(value.v) : Hashable(value.v[i])

\* The first exception of a sequence of steps, or "none".
FirstRaise(excs) ==
    LET raising == {i \in 1..Len(excs) : excs[i] # "none"}
    IN  IF raising = {} THEN "none"
        ELSE excs[CHOOSE i \in raising : \A j \in raising : i <= j]

RECURSIVE convert_raises(_)
\* What ast.literal_eval's _convert raises on a tree: a name is a malformed
\* node; the elements of a display are converted left to right, a dict's
\* key and value before the key is hashed.
convert_raises(node) ==
    IF node.kind \in {"int", "str"} THEN "none"
    ELSE IF node.kind = "name" THEN "ValueError"
    ELSE IF node.kind \in {"list", "tuple"}
    THEN FirstRaise([i \in 1..Len(node.v) |-> convert_raises(node.v[i])])
    ELSE IF node.kind = "set"
    THEN FirstRaise([i \in 1..Len(node.v) |->
            IF convert_raises(node.v[i]) # "none" THEN convert_raises(node.v[i])
            ELSE IF ~Hashable(node.v[i]) THEN "TypeError"
            ELSE "none"])
    ELSE FirstRaise([i \in 1..Len(node.v) |->
            IF convert_raises(node.v[i][1]) # "none" THEN convert_raises(node.v[i][1])
            ELSE IF convert_raises(node.v[i][2]) # "none"
            THEN convert_raises(node.v[i][2])
            ELSE IF ~Hashable(node.v[i][1]) THEN "TypeError"
            ELSE "none"])

\* ast.literal_eval(text): the exception it raises, or "none" and the value
literal_eval(text) ==
    LET tree == ast_parse(text)
    IN  IF ~tree.ok THEN [raised |-> "SyntaxError", val |-> << >>]
        ELSE [raised |-> convert_raises(tree.val), val |-> tree.val]

RECURSIVE py_repr(_)
\* repr(value), for a value without repeated dict keys; also the source text
\* of a tree.
py_repr(value) ==
    LET parts == [i \in 1..Len(value.v) |->
                    IF value.kind = "dict"
                    THEN py_repr(value.v[i][1]) \o <<":", Space>> \o py_repr(value.v[i][2])
                    ELSE py_repr(value.v[i])]
    IN  IF value.kind \in {"int", "name"} THEN value.v
        ELSE IF value.kind = "str" THEN <<Apostrophe>> \o value.v \o <<Apostrophe>>
        ELSE IF value.kind = "list" THEN <<"[">> \o Join(parts, <<",", Space>>) \o <<"]">>
        ELSE IF value.kind = "tuple"
        THEN <<"(">> \o Join(parts, <<",", Space>>)
                   \o (IF Len(parts) = 1 THEN <<",">> ELSE << >>) \o <<")">>
        ELSE <<"{">> \o Join(parts, <<",", Space>>) \o <<"}">>

\* str(value), as an f-string formats it
py_str(value) == IF value.kind = "str" THEN value.v ELSE py_repr(value)

\* key in item, item[key]: the last pair with the key is the dict's entry
KeyHits(item, key) ==
    {i \in 1..Len(item.v) : item.v[i][1].kind = "str" /\ item.v[i][1].v = key}
HasKey(item, key) == KeyHits(item, key) # {}
Lookup(item, key) ==
    item.v[CHOOSE i \in KeyHits(item, key) : \A j \in KeyHits(item, key) : j <= i][2]

\* The fields display_pythonListDict_as_markdown shows, in its order, with
\* the text put before the value and whether the value is escaped.
Field(key, label, escaped) == [key |-> key, label |-> label, escaped |-> escaped]
Fields ==
    << Field(<<"title">>, <<"### ">>, TRUE),
       Field(<<"entity">>, <<"**Entity:** ">>, FALSE),
       Field(<<"rank">>, <<"**Rank:** ">>, FALSE),
       Field(<<"in_context">>, <<"**In Context:** ">>, FALSE),
       Field(<<"id">>, <<"**ID:** ">>, FALSE),
       Field(<<"index_id">>, <<"**Index ID:** ">>, FALSE),
       Field(<<"index_name">>, <<"**Index Name:** ">>, FALSE),
       Field(<<"number", Space, "of", Space, "relationships">>,
             <<"**Number of Relationships:** ">>, FALSE),
       Field(<<"source">>, <<"**Source:** ">>, FALSE),
       Field(<<"target">>, <<"**Target:** ">>, FALSE),
       Field(<<"weight">>, <<"**Weight:** ">>, FALSE),
       Field(<<"links">>, <<"**Links:** ">>, FALSE),
       Field(<<"content">>, << >>, TRUE),
       Field(<<"description">>, << >>, TRUE) >>

\* The keys that earn an entry its closing rule
SeparatorKeys ==
    { <<"title">>, <<"content">>, <<"description">>, <<"rank">>, <<"id">>,
      <<"index_id">>, <<"index_name">>, <<"entity">>,
      <<"number", Space, "of", Space, "relationships">>, <<"source">>,
      <<"target">>, <<"weight">>, <<"links">> }

\* The st.markdown calls of one entry, in order; escape_special_chars calls
\* text.replace, which a value that is not a str does not have.
ItemSteps(item) ==
    LET Present(f) == HasKey(item, f.key)
        shown == SelectSeq(Fields, Present)
        Step(f) ==
            IF f.escaped /\ Lookup(item, f.key).kind # "str"
            THEN [raised |-> "AttributeError", line |-> << >>]
            ELSE [raised |-> "none",
                  line |-> f.label \o
                           (IF f.escaped
                            THEN escape_special_chars(Lookup(item, f.key).v)
                            ELSE py_str(Lookup(item, f.key)))]
    IN  [k \in 1..Len(shown) |-> Step(shown[k])]
        \o (IF \E key \in SeparatorKeys : HasKey(item, key)
            THEN <<[raised |-> "none", line |-> <<"---">>]>>
            ELSE << >>)

\* The lines shown, up to the first call that raises.
display_pythonListDict_as_markdown(listDict) ==
    LET steps == Join([i \in 1..Len(listDict.v) |-> ItemSteps(listDict.v[i])], << >>)
        raising == {i \in 1..Len(steps) : steps[i].raised # "none"}
        done == IF raising = {} THEN Len(steps)
                ELSE (CHOOSE i \in raising : \A j \in raising : i <= j) - 1
    IN  [raised |-> IF raising = {} THEN "none" ELSE "AttributeError",
         output |-> [i \in 1..done |-> steps[i].line]]

IsRecordList(value) ==
    /\ value.kind = "list"
    /\ \A i \in 1..Len(value.v) : value.v[i].kind = "dict"

\* except (ValueError, SyntaxError)
display_catches(exc) == exc \in {"ValueError", "SyntaxError"}

\* The lines display_markdown_text shows and the exception that leaves it.
display_markdown_text(text) ==
    LET parsed == literal_eval(text)
        plain == [raised |-> "none", output |-> <<escape_special_chars(text)>>]
    IN  IF parsed.raised # "none"
        THEN IF display_catches(parsed.raised) THEN plain
             ELSE [raised |-> parsed.raised, output |-> << >>]
        ELSE IF IsRecordList(parsed.val)
        THEN display_pythonListDict_as_markdown(parsed.val)
        ELSE plain

\* The texts shown: the source text of literals of bounded size, of trees
\* that do not convert, and texts that are not expressions.
MaxPairs == 2
MaxItems == 2
KeyWords == {<<"title">>, <<"content">>, <<"rank">>, <<"in_context">>, <<"other">>}
FieldValues == {PyStr(<<"a", "$", "b">>), PyInt(<<"1">>), PyList(<<PyInt(<<"1">>)>>)}
PairsOf == {<<PyStr(k), value>> : k \in KeyWords, value \in FieldValues}
DictsUpTo(n) == {PyDict(pairs) : pairs \in UNION {[1..m -> PairsOf] : m \in 0..n}}
Elements == DictsUpTo(1) \cup {PyInt(<<"1">>)}
ListsOf == {PyList(items) : items \in UNION {[1..m -> Elements] : m \in 0..MaxItems}}
Literals ==
    ListsOf \cup DictsUpTo(MaxPairs) \cup FieldValues
        \cup {PyTuple(<<dict>>) : dict \in DictsUpTo(1)}
UnhashableKey == PyDict(<< <<PyList(<<PyInt(<<"1">>)>>), PyInt(<<"2">>)>> >>)
OddTrees ==
    { PyName("x"), PyList(<<PyName("x")>>), UnhashableKey, PyList(<<UnhashableKey>>),
      PySet(<<PyInt(<<"1">>)>>), PySet(<<PyList(<<PyInt(<<"1">>)>>)>>),
      PyDict(<< <<PyStr(<<"title">>), PyName("x")>> >>) }
Prose ==
    { <<"hi", Space, "there">>, <<"cost", Space, "$", "5">>,
      <<"[", "{", Apostrophe, "title", Apostrophe>>, << >> }
MarkdownTexts == {py_repr(tree) : tree \in Literals \cup OddTrees} \cup Prose

InitMarkdown ==
    /\ now = 0
    /\ login_attempts = << >>
    /\ users = [u \in Usernames |-> NoUser]
    /\ session = NoSession
    /\ streak_start = [u \in Usernames |-> {}]
    /\ blobs = << >>
    /\ saved = << >>
    /\ input_text \in MarkdownTexts
    /\ worker_attempts = [w \in Workers |-> << >>]
    /\ page_user = NoUser
    /\ last = [op |-> "init", user |-> "<none>", ret |-> "<none>"]

\* The query tabs show a cell of the selected row.
DisplayMarkdownText ==
    /\ last' = [op |-> "display_markdown_text", user |-> "<none>",
                ret |-> display_markdown_text(input_text).output,
                raised |-> display_markdown_text(input_text).raised]
    /\ UNCHANGED <<throttle_vars, history_vars, study_vars>>

NextMarkdown == DisplayMarkdownText

SpecMarkdown == InitMarkdown /\ [][NextMarkdown]_vars

(***************************************************************************)
(* The restricted sections: streamlit_entry.admin_interface and app.py     *)
(***************************************************************************)
PermissionTags == {"Administrator", "AllowCreateIndex", "AllowQuery"}
NoPermissionSection == "You do not have permission to access this section."

\* key in st.session_state
InSession(state, key) == state # NoSession /\ key \in DOMAIN state

\* Mutant: the check lets every session through.
check_permission_open(state, required_permission) == TRUE

\* streamlit_entry.check_permission: TRUE when the run goes on, FALSE when
\* it shows the error and stops.
check_permission(state, required_permission) ==
    /\ InSession(state, "permissions")
    /\ required_permission \in state.permissions

\* The tabs of app.py after the main tab, with the tag each one asks for
TabPermission ==
    [prompt_generation |-> "AllowCreateIndex",
     prompt_configuration |-> "AllowCreateIndex",
     index |-> "AllowCreateIndex",
     query |-> "AllowQuery",
     query_history |-> "AllowQuery"]
RestrictedTabs == DOMAIN TabPermission

\* app.graphrag_app: the tabs whose content runs, the tabs that show the
\* no-permission message, and the exception that leaves it.
graphrag_app(state, initialized) ==
    IF ~initialized
    THEN [raised |-> "none", ran |-> {"main"}, denied |-> {}]
    ELSE IF ~InSession(state, "permissions")
    THEN [raised |-> "KeyError", ran |-> {"main"}, denied |-> {}]
    ELSE [raised |-> "none",
          ran |-> {"main"} \cup
                  {tab \in RestrictedTabs : TabPermission[tab] \in state.permissions},
          denied |-> {tab \in RestrictedTabs :
                         TabPermission[tab] \notin state.permissions}]

\* Two accounts are provisioned, one of them an administrator's.
InitPages ==
    /\ now = 0
    /\ login_attempts = << >>
    /\ users = [u \in Usernames |->
                  IF u = "alice"
                  THEN User("alice", "pw1", {"AllowQuery"}, {"idx1"})
                  ELSE User(u, "pw1", {"Administrator"}, {"idx1"})]
    /\ session = NoSession
    /\ streak_start = [u \in Usernames |-> {}]
    /\ blobs = << >>
    /\ saved = << >>
    /\ input_text = << >>
    /\ worker_attempts = [w \in Workers |-> << >>]
    /\ page_user = NoUser
    /\ last = [op |-> "init", user |-> "<none>", ret |-> "<none>"]

\* admin_interface with "Edit User" selected and "Update User" submitted.
AdminInterface(selected_username, permissions) ==
    /\ IF ~check_permission(session, "Administrator")
       THEN /\ last' = [op |-> "admin_interface", user |-> selected_username,
                        ret |-> [shown |-> NoPermissionSection, reads |-> {},
                                 writes |-> {}]]
            /\ UNCHANGED users
       ELSE LET user == get_user(users, selected_username)
            IN  /\ user # NoUser
                /\ users' = save_user(users, [user EXCEPT !.permissions = permissions])
                /\ last' = [op |-> "admin_interface", user |-> selected_username,
                            ret |-> [shown |-> "User updated successfully",
                                     reads |-> {"list_users", "list_graphrag_indexes",
                                                "get_user"},
                                     writes |-> {"save_user"}]]
    /\ UNCHANGED <<now, login_attempts, session, streak_start, blobs, saved, study_vars>>

\* app.py, the main page of a logged-in session.
GraphragApp(initialized) ==
    /\ session # NoSession
    /\ last' = [op |-> "graphrag_app", user |-> session.username,
                ret |-> graphrag_app(session, initialized),
                initialized |-> initialized]
    /\ UNCHANGED <<throttle_vars, history_vars, study_vars>>

NextPages ==
    \/ \E u \in Usernames : Login(u, "pw1")
    \/ Logout
    \/ \E u \in Usernames, permissions \in SUBSET PermissionTags :
          AdminInterface(u, permissions)
    \/ \E initialized \in BOOLEAN : GraphragApp(initialized)

SpecPages == InitPages /\ [][NextPages]_vars

(***************************************************************************)
(* The administrator's pages and the persisted user record.  A page's run  *)
(* reads the selected user and hands the object to its button's callback   *)
(* (on_click=..., args=[user]); the callback runs when the button is       *)
(* clicked, any time later, and the script is then run again.  The pages,  *)
(* the login form and the other administrators are sessions of their own,  *)
(* sharing the user store.                                                 *)
(***************************************************************************)
PermissionChoices == {{"AllowQuery"}, {"Administrator", "AllowQuery"}}
IndexChoices == {{"idx1"}, {"idx1", "idx2"}}

\* The store after cb_ResetPassword(user) with the password typed in the form
cb_ResetPassword(store, user, reset_password) ==
    save_user(store, [user EXCEPT !.salt = salt_rounds,
                                  !.hashpassword = hash_password(reset_password,
                                                                 salt_rounds)])

\* admin_interface with "Reset Password" selected: the run reads the user
\* and renders the form whose button holds it.
ResetPasswordPage(selected_username) ==
    /\ get_user(users, selected_username) # NoUser
    /\ page_user' = get_user(users, selected_username)
    /\ last' = [op |-> "admin_interface", user |-> selected_username,
                ret |-> "reset_password_form"]
    /\ UNCHANGED <<throttle_vars, history_vars, input_text, worker_attempts>>

\* "Reset Password" submitted with matching passwords: the callback saves
\* the object the button holds, and the run that follows reads the user again.
CbResetPassword(reset_password) ==
    /\ page_user # NoUser
    /\ users' = cb_ResetPassword(users, page_user, reset_password)
    /\ page_user' = get_user(users', page_user.username)
    /\ last' = [op |-> "cb_ResetPassword", user |-> page_user.username,
                ret |-> "Password has been reset successfully"]
    /\ UNCHANGED <<now, login_attempts, session, streak_start, history_vars,
                   input_text, worker_attempts>>

\* admin_interface with "Edit User" selected and "Update User" submitted:
\* the run reads the user, assigns the two selections and saves.
UpdateUser(selected_username, permissions, selected_indexes) ==
    /\ LET user == get_user(users, selected_username)
       IN  /\ user # NoUser
           /\ users' = save_user(users, [user EXCEPT !.permissions = permissions,
                                                     !.graphragindexes = selected_indexes])
    /\ last' = [op |-> "update_user", user |-> selected_username,
                ret |-> "User updated successfully"]
    /\ UNCHANGED <<now, login_attempts, session, streak_start, history_vars, study_vars>>

NextAdmin ==
    \/ \E u \in Usernames : RecordFailedAttempt(u)
    \/ \E u \in Usernames : ResetPasswordPage(u)
    \/ \E p \in Passwords : CbResetPassword(p)
    \/ \E u \in Usernames, permissions \in PermissionChoices,
          selected_indexes \in IndexChoices :
          UpdateUser(u, permissions, selected_indexes)

SpecAdmin == Init /\ [][NextAdmin]_vars

(***************************************************************************)
(* The login form served by several worker processes: login_attempts is a  *)
(* module-level dict (security.py:12), one per process; the user store is  *)
(* shared.                                                                 *)
(***************************************************************************)
\* Mutant: the workers share one table.
shared_tables_after(tables, worker, table) == [v \in DOMAIN tables |-> table]

\* The workers' tables after one worker has left its own as table.
worker_tables_after(tables, worker, table) == [tables EXCEPT ![worker] = table]

\* streamlit_entry.login on a submitted form, run by one worker.
WorkerLogin(worker, username, password) ==
    /\ LET user == get_user(users, username)
           evaluated == LoginEvaluatesLock(user)
           locked == evaluated
                        /\ is_account_locked(worker_attempts[worker], username, now)
           table1 == IF evaluated
                     THEN is_account_locked_table(worker_attempts[worker], username, now)
                     ELSE worker_attempts[worker]
       IN  IF user = NoUser \/ locked
           THEN /\ worker_attempts' = worker_tables_after(worker_attempts, worker, table1)
                /\ last' = [op |-> "login", user |-> username, worker |-> worker,
                            ret |-> "Account locked or invalid credentials"]
                /\ UNCHANGED users
           ELSE IF verify_password(user.hashpassword, password)
           THEN /\ worker_attempts' =
                      worker_tables_after(worker_attempts, worker,
                                          reset_failed_attempts(table1, username))
                /\ last' = [op |-> "login", user |-> username, worker |-> worker,
                            ret |-> "Login successful"]
                /\ UNCHANGED users
           ELSE /\ CanRecord(table1, username)
                /\ LET table2 == record_failed_attempt(table1, username, now)
                   IN  /\ worker_attempts' =
                             worker_tables_after(worker_attempts, worker, table2)
                       /\ users' = IF record_deactivates(table2, username, now)
                                   THEN deactivate_user(users, username)
                                   ELSE users
                /\ last' = [op |-> "login", user |-> username, worker |-> worker,
                            ret |-> "Invalid credentials"]
    /\ UNCHANGED <<now, login_attempts, session, streak_start, blobs, saved, input_text,
                   page_user>>

\* A worker's counter for a username, 0 when it has no entry
WorkerCount(tables, worker, username) ==
    IF username \in DOMAIN tables[worker] THEN tables[worker][username].count ELSE 0

NextWorkers ==
    \/ Tick
    \/ \E w \in Workers, u \in Usernames, p \in Passwords : WorkerLogin(w, u, p)

SpecWorkers == Init /\ [][NextWorkers]_vars

(***************************************************************************)
(* The external calls of the tabs (components/tabs.py): each run of a tab  *)
(* is recorded with the calls it issued, in order, and their outcome.      *)
(***************************************************************************)
\* get_prompt_generation_tab's default num_chunks
default_num_chunks == 5

Call(name, limit, ok) == [call |-> name, limit |-> limit, ok |-> ok]

\* Mutant: one attempt, whatever its outcome.
prompt_generation_calls_once(num_chunks, outcomes) ==
    <<Call("generate_and_extract_prompts",
           IF num_chunks <= 5 THEN num_chunks ELSE 5, outcomes[1])>>

\* Mutant: the sample size is not capped.
prompt_generation_calls_uncapped(num_chunks, outcomes) ==
    LET succeeded == {k \in 1..num_chunks : k \in DOMAIN outcomes /\ outcomes[k]}
        made == IF num_chunks < 1 THEN 1
                ELSE IF succeeded = {} THEN num_chunks
                ELSE CHOOSE k \in succeeded : \A j \in succeeded : k <= j
    IN  [k \in 1..made |->
            Call("generate_and_extract_prompts", num_chunks - k + 1,
                 k \in DOMAIN outcomes /\ outcomes[k])]

\* The generate_and_extract_prompts calls of one click on "Generate
\* Prompts": the first with the capped num_chunks, then one per smaller
\* sample size while the call before returned an Exception; outcomes[k] is
\* whether the k-th call succeeds.
prompt_generation_calls(num_chunks, outcomes) ==
    LET first == IF num_chunks <= 5 THEN num_chunks ELSE 5
        succeeded == {k \in 1..first : outcomes[k]}
        made == IF first < 1 THEN 1
                ELSE IF succeeded = {} THEN first
                ELSE CHOOSE k \in succeeded : \A j \in succeeded : k <= j
    IN  [k \in 1..made |->
            Call("generate_and_extract_prompts", first - k + 1, outcomes[k])]

\* One run of get_prompt_generation_tab when the API lists storage
\* containers: the button is enabled once a container is selected, and
\* triggered is whether this run follows a click on it.
GetPromptGenerationTab(num_chunks, select_prompt_storage, triggered, outcomes) ==
    /\ triggered => select_prompt_storage # ""
    /\ LET calls == IF triggered THEN prompt_generation_calls(num_chunks, outcomes)
                    ELSE << >>
       IN  last' = [op |-> "get_prompt_generation_tab", user |-> "<none>",
                    ret |-> IF ~triggered THEN "<none>"
                            ELSE IF calls[Len(calls)].ok
                            THEN "Prompts generated successfully!"
                            ELSE "Retrying with a smaller sample size",
                    calls |-> <<Call("get_storage_container_names", 0, TRUE)>>
                               \o calls,
                    num_chunks |-> num_chunks,
                    storage_name |-> select_prompt_storage]
    /\ UNCHANGED <<throttle_vars, history_vars, study_vars>>

\* get_query_history_tab on its first run in a session: the list of the
\* histories, then the load of the selected one.
GetQueryHistoryTab(blob_name, list_ok, download_ok) ==
    /\ blob_name \in DOMAIN blobs
    /\ last' = IF ~list_ok
               THEN [op |-> "get_query_history_tab", user |-> blob_name,
                     ret |-> "Error loading blobs",
                     calls |-> <<Call("list_blobs", 0, FALSE)>>]
               ELSE [op |-> "get_query_history_tab", user |-> blob_name,
                     ret |-> load_query_histories(blobs, blob_name, download_ok),
                     calls |-> <<Call("list_blobs", 0, TRUE),
                                 Call("download_blob", 0, download_ok)>>]
    /\ UNCHANGED <<throttle_vars, history_vars, study_vars>>

\* The histories the tabs' runs are checked over: none or one record.
ShortHistories == {<< >>} \cup [1..1 -> Records]

NextCalls ==
    \/ \E b \in BlobNames, h \in ShortHistories :
          SaveQueryHistories(b, h, LastQuery(h), Answer)
    \/ \E b \in BlobNames, body \in ForeignBodies : ForeignUpload(b, body)
    \/ \E b \in BlobNames, list_ok \in BOOLEAN, download_ok \in BOOLEAN :
          GetQueryHistoryTab(b, list_ok, download_ok)
    \/ \E outcomes \in [1..default_num_chunks -> BOOLEAN] :
          GetPromptGenerationTab(default_num_chunks, "c1", TRUE, outcomes)

SpecCalls == Init /\ [][NextCalls]_vars

\* The prompt-generation tab over the sample sizes a caller may ask for
\* and the outcomes of up to five attempts.
MaxChunks == 7
NumChunks == 1..MaxChunks
StorageContainers == {"c1", "c2", "c3"}

NextPrompts ==
    \E num_chunks \in NumChunks, select_prompt_storage \in StorageContainers \cup {""},
       triggered \in BOOLEAN, outcomes \in [1..default_num_chunks -> BOOLEAN] :
       GetPromptGenerationTab(num_chunks, select_prompt_storage, triggered, outcomes)

SpecPrompts == Init /\ [][NextPrompts]_vars

(***************************************************************************)
(* The query tab (components/tabs.py, get_query_tab).  A list of index     *)
(* names is the set of its elements: the tab tests membership and truth    *)
(* only.  An index name is a string, the empty one included.               *)
(***************************************************************************)
\* Python's any() over strings: some element is not the empty string.
any(names) == \E name \in names : name # ""

\* Mutant: every index the API returns is offered.
filtered_indexes_all(search_indexes, allowed_index) == search_indexes

\* [index for index in search_indexes if index in allowed_index]
filtered_indexes(search_indexes, allowed_index) ==
    {index \in search_indexes : index \in allowed_index}

\* The options of the "Index" multiselect
index_options(search_indexes, allowed_index) ==
    IF any(filtered_indexes(search_indexes, allowed_index))
    THEN filtered_indexes(search_indexes, allowed_index)
    ELSE {}

\* The text of the 'Suggest Query' prompt, which names the search mode.
suggest_prompt(query_type) ==
    <<"Suggest 10 relevant questions about your knowledgebase.",
      IF query_type = "Local" THEN "Local" ELSE "Global">>

Search(query_type, search_index, query) ==
    [call |-> "search", query_type |-> query_type, search_index |-> search_index,
     query |-> query]

\* The query_engine.search calls of execute_query
execute_query(query_type, search_index, query) ==
    IF query # << >> THEN <<Search(query_type, search_index, query)>> ELSE << >>

\* The searches of one run of the form and the warning the run shows;
\* pressed is the submit button that is True in the run, if any.
get_query_tab(query_type, select_index_search, query, pressed) ==
    IF pressed = "suggest" /\ any(select_index_search)
    THEN [searches |-> execute_query(query_type, select_index_search,
                                     suggest_prompt(query_type)),
          warning |-> "none"]
    ELSE IF Len(query) > 5
    THEN [searches |-> IF query # << >> /\ pressed = "QUERY"
                          /\ any(select_index_search)
                       THEN execute_query(query_type, select_index_search, query)
                       ELSE << >>,
          warning |-> "none"]
    ELSE [searches |-> << >>,
          warning |-> IF ~ any(select_index_search)
                      THEN "Please select an index!"
                      ELSE "Cannot submit queries less than 6 characters in length."]

IndexNames == {"idx1", "idx2", ""}
QueryTypes == {"Global Streaming", "Global", "Local"}
Buttons == {"none", "QUERY", "suggest"}
\* Typed queries of 0, 5 and 6 characters
Queries == {<< >>, <<"w", "h", "a", "t", "?">>, <<"w", "h", "a", "t", "s", "?">>}

\* Two accounts with different index lists.
InitQuery ==
    /\ now = 0
    /\ login_attempts = << >>
    /\ users = [u \in Usernames |->
                  IF u = "alice"
                  THEN User("alice", "pw1", {"AllowQuery"}, {"idx1"})
                  ELSE User(u, "pw1", {"AllowQuery"}, {"idx2", ""})]
    /\ session = NoSession
    /\ streak_start = [u \in Usernames |-> {}]
    /\ blobs = << >>
    /\ saved = << >>
    /\ input_text = << >>
    /\ worker_attempts = [w \in Workers |-> << >>]
    /\ page_user = NoUser
    /\ last = [op |-> "init", user |-> "<none>", ret |-> "<none>"]

\* One run of the query tab in a logged-in session that holds AllowQuery:
\* the API returns search_indexes, and the widgets hold a selection among
\* the options, a query type, a typed query and the pressed button.
GetQueryTab(search_indexes, select_index_search, query_type, query, pressed) ==
    /\ session # NoSession
    /\ "AllowQuery" \in session.permissions
    /\ select_index_search
          \subseteq index_options(search_indexes, session.graphragindexes)
    /\ LET run == get_query_tab(query_type, select_index_search, query, pressed)
       IN  last' = [op |-> "get_query_tab", user |-> session.username,
                    ret |-> run.warning,
                    calls |-> <<Call("get_index_names", 0, TRUE)>>,
                    searches |-> run.searches,
                    search_indexes |-> search_indexes,
                    query |-> query, pressed |-> pressed]
    /\ UNCHANGED <<throttle_vars, history_vars, study_vars>>

NextQuery ==
    \/ \E u \in Usernames : Login(u, "pw1")
    \/ Logout
    \/ \E search_indexes \in SUBSET IndexNames, select_index_search \in SUBSET IndexNames,
          query_type \in QueryTypes, query \in Queries, pressed \in Buttons :
          GetQueryTab(search_indexes, select_index_search, query_type, query, pressed)

SpecQuery == InitQuery /\ [][NextQuery]_vars

(***************************************************************************)
(* Login throttle: the properties                                          *)
(***************************************************************************)
Elapsed(u) == now - login_attempts[u].last_attempt_time

\* C1: for a username with a user record, the fifth record_failed_attempt
\* since its counter was zero, made less than 600 s after the first of the
\* five, leaves the persisted account status Inactive.
C1_FiveFailuresDeactivate ==
    [][ \A u \in Usernames :
          ( /\ last'.op = "record_failed_attempt"
            /\ last'.user = u
            /\ users[u] # NoUser
            /\ login_attempts'[u].count = LOCKOUT_THRESHOLD
            /\ \E first \in streak_start'[u] : now - first < LOCKOUT_TIME )
          => users'[u].accountstatus = "Inactive" ]_vars

\* C2: a record_failed_attempt made 600 s or more after the entry's
\* timestamp changes nothing in the user store, whatever the counter.
C2_NoDeactivationAfterWindow ==
    [][ ( /\ last'.op = "record_failed_attempt"
          /\ last'.user \in DOMAIN login_attempts
          /\ Elapsed(last'.user) >= LOCKOUT_TIME )
        => users' = users ]_vars

C2_Witness ==
    /\ last.op = "record_failed_attempt"
    /\ users[last.user] # NoUser
    /\ users[last.user].accountstatus = "Active"
    /\ login_attempts[last.user].count >= LOCKOUT_THRESHOLD
    /\ Elapsed(last.user) >= LOCKOUT_TIME

\* C3: is_account_locked returns true exactly when the username has an
\* entry with counter >= 5 whose timestamp is less than 600 s old.
C3_LockedExactly ==
    [][ last'.op = "is_account_locked" =>
          last'.ret = ( /\ last'.user \in DOMAIN login_attempts
                        /\ login_attempts[last'.user].count >= LOCKOUT_THRESHOLD
                        /\ Elapsed(last'.user) < LOCKOUT_TIME ) ]_vars

C3_Witness ==
    /\ last.op = "is_account_locked"
    /\ last.ret = TRUE
    /\ login_attempts[last.user].count >= LOCKOUT_THRESHOLD

\* C4: is_account_locked on a username with an entry leaves the counter 0
\* when 600 s or more have passed since the entry's timestamp, and leaves
\* the counter unchanged otherwise.
C4_ExpiredWindowZeroesCounter ==
    [][ ( /\ last'.op = "is_account_locked"
          /\ last'.user \in DOMAIN login_attempts )
        => IF Elapsed(last'.user) >= LOCKOUT_TIME
           THEN login_attempts'[last'.user].count = 0
           ELSE login_attempts'[last'.user].count
                    = login_attempts[last'.user].count ]_vars

\* C5: reset_failed_attempts(u) leaves u's counter 0, creates no entry,
\* changes no other entry, and is_account_locked(u) is false right after.
C5_ResetClearsOnlyThatCounter ==
    [][ last'.op = "reset_failed_attempts" =>
          /\ DOMAIN login_attempts' = DOMAIN login_attempts
          /\ \A v \in DOMAIN login_attempts :
                IF v = last'.user
                THEN login_attempts'[v].count = 0
                ELSE login_attempts'[v] = login_attempts[v]
          /\ ~ is_account_locked(login_attempts', last'.user, now') ]_vars

C5_Witness ==
    /\ last.op = "reset_failed_attempts"
    /\ last.user \in DOMAIN login_attempts
    /\ Elapsed(last.user) < LOCKOUT_TIME
    /\ users[last.user] # NoUser
    /\ users[last.user].accountstatus = "Inactive"
    /\ \E v \in DOMAIN login_attempts :
          v # last.user /\ login_attempts[v].count >= LOCKOUT_THRESHOLD

\* C6: an entry's timestamp is written when the entry is created and never
\* again; record_failed_attempt on an existing entry adds exactly 1 to its
\* counter; entries are created only by record_failed_attempt.
C6_TimestampWrittenOnceAtCreation ==
    [][ /\ \A u \in DOMAIN login_attempts :
              /\ u \in DOMAIN login_attempts'
              /\ login_attempts'[u].last_attempt_time
                    = login_attempts[u].last_attempt_time
              /\ (last'.op = "record_failed_attempt" /\ last'.user = u)
                    => login_attempts'[u].count = login_attempts[u].count + 1
        /\ \A u \in DOMAIN login_attempts' \ DOMAIN login_attempts :
              /\ last'.op = "record_failed_attempt"
              /\ last'.user = u
              /\ login_attempts'[u] = [count |-> 1, last_attempt_time |-> now]
      ]_vars

C6_Witness ==
    /\ last.op = "record_failed_attempt"
    /\ login_attempts[last.user].count >= 2
    /\ login_attempts[last.user].last_attempt_time < now

\* C7: is_account_locked and reset_failed_attempts write nothing to the
\* user store, and an Inactive account stays Inactive through every step
\* that is not an administrator's unlock or an overwrite of the record.
C7_ExpiryNeverReactivates ==
    [][ /\ last'.op \in {"is_account_locked", "reset_failed_attempts"}
              => users' = users
        /\ \A u \in Usernames :
              ( /\ users[u] # NoUser
                /\ users[u].accountstatus = "Inactive"
                /\ last'.op \notin {"cb_unlock_account", "cb_CreateUser",
                                     "cb_DeleteUser"} )
              => users'[u] = users[u] ]_vars

C7_Witness ==
    /\ last.op = "is_account_locked"
    /\ users[last.user] # NoUser
    /\ users[last.user].accountstatus = "Inactive"
    /\ last.user \in DOMAIN login_attempts
    /\ login_attempts[last.user].count = 0
    /\ Elapsed(last.user) > LOCKOUT_TIME

\* C8: a login for a username with no user record shows the error, sets
\* nothing in the session and leaves the attempt table and the user store
\* as they were.
C8_UnknownUserLogin ==
    [][ (last'.op = "login" /\ users[last'.user] = NoUser) =>
          /\ last'.ret = "Account locked or invalid credentials"
          /\ session' = NoSession
          /\ login_attempts' = login_attempts
          /\ users' = users ]_vars

C8_Witness ==
    /\ last.op = "login"
    /\ users[last.user] = NoUser
    /\ last.user \in DOMAIN login_attempts
    /\ login_attempts[last.user].count > 0
    /\ Elapsed(last.user) > LOCKOUT_TIME

(***************************************************************************)
(* Query-history persistence: the properties                               *)
(***************************************************************************)
\* C9: a load of a blob name, when the download succeeds, returns the list
\* passed to the latest save under that name, record for record and
\* character for character.
C9_SaveLoadRoundTrip ==
    [][ ( /\ last'.op = "load_query_histories"
          /\ ~last'.fault
          /\ last'.user \in DOMAIN saved )
        => last'.ret = saved[last'.user].query_histories ]_vars

C9_Witness ==
    /\ last.op = "load_query_histories"
    /\ ~last.fault
    /\ Len(last.ret) = 2
    /\ \E i \in 1..Len(last.ret) : \E j \in 1..Len(last.ret[i]) :
          \E k \in 1..Len(last.ret[i][j][2]) : last.ret[i][j][2][k] = "$"
    /\ \E i \in 1..Len(last.ret) : \E j \in 1..Len(last.ret[i]) :
          \E k \in 1..Len(last.ret[i][j][2]) : last.ret[i][j][2][k] = Backslash

\* C10: a save writes exactly the blob it names and leaves every other blob
\* as it was; every saved name holds one blob, whose body reads back as the
\* list of the latest save under that name and whose metadata is the one
\* built from that save's arguments; no other blob name ever exists.
C10_SaveOverwritesOneBlob ==
    /\ [][ last'.op = "save_query_histories" =>
              /\ DOMAIN blobs' = DOMAIN blobs \cup {last'.user}
              /\ \A b \in DOMAIN blobs \ {last'.user} : blobs'[b] = blobs[b] ]_vars
    /\ [] ( /\ DOMAIN blobs = DOMAIN saved
            /\ \A b \in DOMAIN saved :
                  /\ json_loads(blobs[b].body)
                        = Parsed(saved[b].query_histories, << >>)
                  /\ blobs[b].metadata
                        = [lastquerytime |-> saved[b].lastquerytime,
                           lastquerycontent |-> sanitize_metadata_value(
                              truncateText(saved[b].lastquerycontent, default_length)),
                           lastqueryindexes |-> saved[b].lastqueryindexes,
                           lastqueryType |-> saved[b].lastqueryType,
                           lastanswercontent |-> sanitize_metadata_value(
                              truncateText(saved[b].lastanswercontent, default_length))] )

C10_Witness ==
    /\ last.op = "save_query_histories"
    /\ last.ret = "overwritten"
    /\ DOMAIN blobs = BlobNames
    /\ Len(saved[last.user].query_histories) = 1
    /\ \E b \in BlobNames : Len(saved[b].query_histories) = 2

\* C11: a load whose blob is missing, whose download fails or whose body is
\* not valid JSON returns the empty list, lets no exception out and leaves
\* the container as it was.
C11_LoadFailureGivesEmptyList ==
    [][ ( /\ last'.op = "load_query_histories"
          /\ \/ last'.user \notin DOMAIN blobs
             \/ last'.fault
             \/ ~json_loads(blobs[last'.user].body).ok )
        => /\ last'.ret = << >>
           /\ last'.raised = "none"
           /\ blobs' = blobs ]_vars

C11_Witness ==
    /\ last.op = "load_query_histories"
    /\ ~last.fault
    /\ last.user \in DOMAIN blobs
    /\ blobs[last.user].body \in ForeignBodies \ {<< >>}
    /\ last.user \in DOMAIN saved
    /\ saved[last.user].query_histories # << >>
    /\ last.ret = << >>

(***************************************************************************)
(* The text functions: the properties                                      *)
(***************************************************************************)
\* C12: sanitize_metadata_value applied to its own result returns that
\* result, for every argument.
C12_SanitizeIdempotent ==
    last.op = "sanitize_metadata_value"
        => sanitize_metadata_value(last.ret) = last.ret

\* A value that is pure ASCII, trimmed, with every run of whitespace a
\* single space, and at most max_length characters long.
IsSanitized(value) ==
    /\ \A i \in 1..Len(value) :
          /\ value[i] \notin NonAscii
          /\ value[i] \in Whitespace =>
                /\ value[i] = Space
                /\ i > 1 /\ i < Len(value)
                /\ value[i + 1] \notin Whitespace
    /\ Len(value) <= max_length

\* C13: each of the five metadata values of every blob is sanitized.
C13_MetadataSanitized ==
    \A b \in DOMAIN blobs : \A f \in MetadataFields :
        IsSanitized(blobs[b].metadata[f])

C15_RecordListExactlyForListOfDicts ==
    ( /\ last.op = "display_markdown_text"
      /\ literal_eval(input_text).raised = "none" )
    => /\ last.raised = "none"
       /\ IF IsRecordList(literal_eval(input_text).val)
          THEN last.ret # <<escape_special_chars(input_text)>>
          ELSE last.ret = <<escape_special_chars(input_text)>>

\* C16: when the literal parse raises, whatever it raises,
\* display_markdown_text shows the text itself, '$' escaped, and lets no
\* exception out.
C16_ParseFailureFallsBack ==
    ( /\ last.op = "display_markdown_text"
      /\ literal_eval(input_text).raised # "none" )
    => /\ last.raised = "none"
       /\ last.ret = <<escape_special_chars(input_text)>>

C18_WorkersCountApart ==
    [][ last'.op = "login" =>
          /\ \A v \in Workers \ {last'.worker} :
                worker_attempts'[v] = worker_attempts[v]
          /\ ( /\ users[last'.user] # NoUser
               /\ \/ last'.ret = "Account locked or invalid credentials"
                  \/ users'[last'.user].accountstatus # users[last'.user].accountstatus )
             => WorkerCount(worker_attempts', last'.worker, last'.user)
                    >= LOCKOUT_THRESHOLD ]_vars

C18_Witness ==
    /\ last.op = "login"
    /\ last.user = "alice"
    /\ last.ret = "Invalid credentials"
    /\ now < LOCKOUT_TIME
    /\ WorkerCount(worker_attempts, "w1", "alice") = 4
    /\ WorkerCount(worker_attempts, "w2", "alice") = 3
    /\ users["alice"].accountstatus = "Active"
    /\ \A w \in Workers : ~is_account_locked(worker_attempts[w], "alice", now)

(***************************************************************************)
(* External calls: the properties                                          *)
(***************************************************************************)
TabOps == {"get_prompt_generation_tab", "get_query_history_tab"}

\* C19 as stated: no run of a tab issues a call again after that call has
\* failed.
C19_NoCallReissued ==
    last.op \in TabOps =>
        \A i \in 1..Len(last.calls) : \A j \in (i + 1)..Len(last.calls) :
            ~ (last.calls[j].call = last.calls[i].call /\ ~last.calls[i].ok)

\* C19 amended: only the prompt-generation tab issues a call again after it
\* failed; it calls generate_and_extract_prompts first with sample size 5
\* and, after each failure with a sample size above 1, once more with the
\* sample size one smaller, and never after a success.
C19_OnlyPromptGenerationRetries ==
    last.op \in TabOps =>
        \A i \in 1..Len(last.calls) :
            LET this == last.calls[i]
            IN  IF this.call = "generate_and_extract_prompts"
                THEN /\ this.limit = default_num_chunks - (i - 2)
                     /\ this.limit >= 1
                     /\ (~this.ok /\ this.limit > 1)
                            <=> (/\ i < Len(last.calls)
                                 /\ last.calls[i + 1].call = this.call)
                ELSE \A j \in (i + 1)..Len(last.calls) :
                        last.calls[j].call # this.call

C19_Witness ==
    /\ last.op = "get_prompt_generation_tab"
    /\ Len(last.calls) = 1 + default_num_chunks
    /\ last.calls[Len(last.calls)].limit = 1
    /\ last.calls[Len(last.calls)].ok
    /\ DOMAIN blobs = BlobNames

(***************************************************************************)
(* Login and the persisted account status                                  *)
(***************************************************************************)
\* C20: the outcome of a login is decided by the existence of the user
\* record, by is_account_locked and by the password check alone: with a
\* record, no lock reported and the right password a session is set up,
\* whatever the record's account status.
C20_LoginIgnoresAccountStatus ==
    [][ last'.op = "login" =>
          IF \/ users[last'.user] = NoUser
             \/ is_account_locked(login_attempts, last'.user, now)
          THEN /\ last'.ret = "Account locked or invalid credentials"
               /\ session' = session
          ELSE IF verify_password(users[last'.user].hashpassword, last'.password)
          THEN /\ last'.ret = "Login successful"
               /\ session' # NoSession
               /\ session'.username = last'.user
               /\ session'.permissions = users[last'.user].permissions
          ELSE /\ last'.ret = "Invalid credentials"
               /\ session' = session ]_vars

C20_Witness ==
    /\ last.op = "login"
    /\ last.ret = "Login successful"
    /\ session # NoSession
    /\ session.username = last.user
    /\ users[last.user].accountstatus = "Inactive"
    /\ login_attempts[last.user].count = 0

(***************************************************************************)
(* Login under a reported lock                                             *)
(***************************************************************************)
\* C21: while the throttle reports a username locked, a login for it sets
\* up no session whatever the password, does not reach the password check
\* and leaves the attempt table and the user store as they were.
C21_LockedLoginRefused ==
    [][ ( /\ last'.op = "login"
          /\ is_account_locked(login_attempts, last'.user, now) )
        => /\ last'.ret = "Account locked or invalid credentials"
           /\ ~ last'.verified
           /\ session' = NoSession
           /\ login_attempts' = login_attempts
           /\ users' = users ]_vars

C21_Witness ==
    /\ last.op = "login"
    /\ last.ret = "Account locked or invalid credentials"
    /\ users[last.user] # NoUser
    /\ verify_password(users[last.user].hashpassword, last.password)
    /\ login_attempts[last.user].count = LOCKOUT_THRESHOLD
    /\ is_account_locked(login_attempts, last.user, now)
    /\ session = NoSession

C23_CounterWithinThreshold ==
    /\ \A u \in DOMAIN login_attempts :
          login_attempts[u].count <= LOCKOUT_THRESHOLD
    /\ (last.op = "login" /\ last.ret = "Invalid credentials") => last.left >= 0

(***************************************************************************)
(* The user record under the administrator's writes                        *)
(***************************************************************************)
\* C24: a password reset changes the salt and the password hash of the
\* record stored at the moment of its write and nothing else, so the
\* status, the permissions and the index list stored then are kept; a
\* recorded failure changes at most the account status of a stored record.
C24_NoLostUpdate ==
    [][ /\ last'.op = "cb_ResetPassword" =>
              \A u \in Usernames :
                 IF u = last'.user /\ users[u] # NoUser
                 THEN /\ users'[u].accountstatus = users[u].accountstatus
                      /\ users'[u].permissions = users[u].permissions
                      /\ users'[u].graphragindexes = users[u].graphragindexes
                      /\ users'[u].username = users[u].username
                 ELSE users'[u] = users[u]
        /\ last'.op = "record_failed_attempt" =>
              \A u \in Usernames :
                 \/ users'[u] = users[u]
                 \/ /\ users[u] # NoUser
                    /\ users'[u] = [users[u] EXCEPT !.accountstatus = "Inactive"]
      ]_vars

(***************************************************************************)
(* The record-list rendering: the properties                               *)
(***************************************************************************)
\* The records of the text under study, when it is a record list
RecordsShown == literal_eval(input_text).val.v

\* The recognized fields a record holds, in the order they are shown
FieldsOf(item) == SelectSeq(Fields, LAMBDA f : HasKey(item, f.key))

IsRule(line) == line = <<"---">>
IsFieldLine(line) == ~ IsRule(line)

ShowsRecordList ==
    /\ last.op = "display_markdown_text"
    /\ literal_eval(input_text).raised = "none"
    /\ IsRecordList(literal_eval(input_text).val)

\* C25: when the text parses as a list of records, display_markdown_text
\* raises nothing and shows one line for every recognized key of every
\* record, whatever the type of its value, and nothing for any other key.
C25_RecordListRendersToCompletion ==
    ShowsRecordList
    => /\ last.raised = "none"
       /\ Len(SelectSeq(last.ret, IsFieldLine))
             = Len(Join([i \in 1..Len(RecordsShown) |-> FieldsOf(RecordsShown[i])],
                        << >>))

\* C26: in a record list rendered to its end, the horizontal rules are as
\* many as the records with at least one recognized key: a rule follows a
\* record exactly when one of its fields was shown.
C26_RuleIffFieldShown ==
    (ShowsRecordList /\ last.raised = "none")
    => Len(SelectSeq(last.ret, IsRule))
          = Len(SelectSeq(RecordsShown, LAMBDA item : FieldsOf(item) # << >>))

(***************************************************************************)
(* The query tab: the properties                                           *)
(***************************************************************************)
\* C27: a run of the query tab makes at most one search; the search
\* targets a set of indexes that is not empty and lies within both the
\* list the API returned and the session's allowed list; its query is the
\* suggestion prompt when the suggest button was pressed, and otherwise
\* the typed query, which is then longer than 5 characters.
C27_SearchOnlyAllowedIndexes ==
    last.op = "get_query_tab" =>
       /\ Len(last.searches) <= 1
       /\ \A k \in 1..Len(last.searches) :
             /\ last.searches[k].search_index # {}
             /\ last.searches[k].search_index \subseteq last.search_indexes
             /\ last.searches[k].search_index \subseteq session.graphragindexes
             /\ IF last.pressed = "suggest"
                THEN last.searches[k].query
                        = suggest_prompt(last.searches[k].query_type)
                ELSE /\ last.pressed = "QUERY"
                     /\ last.searches[k].query = last.query
                     /\ Len(last.query) > 5

C27_Witness ==
    /\ last.op = "get_query_tab"
    /\ last.pressed = "QUERY"
    /\ Len(last.searches) = 1
    /\ Len(last.query) = 6
    /\ last.searches[1].search_index = {"idx2"}
    /\ last.search_indexes = IndexNames

(***************************************************************************)
(* Prompt generation: the properties                                       *)
(***************************************************************************)
\* The generate_and_extract_prompts calls of the last run
Attempts == SelectSeq(last.calls, LAMBDA c : c.call = "generate_and_extract_prompts")

\* C28: one click makes at least one and at most 5 calls of
\* generate_and_extract_prompts, and no more than num_chunks; the first has
\* the sample size num_chunks capped at 5, each later one follows a failed
\* call with the sample size one smaller, none has a sample size below 1 or
\* above 5, and the calls end at the first success or at sample size 1.
C28_BoundedDecreasingRetries ==
    (last.op = "get_prompt_generation_tab" /\ Len(last.calls) > 1) =>
       /\ Len(Attempts) <= 5
       /\ Len(Attempts) <= last.num_chunks
       /\ Attempts[1].limit = IF last.num_chunks <= 5 THEN last.num_chunks ELSE 5
       /\ \A k \in 1..Len(Attempts) :
             /\ Attempts[k].limit >= 1
             /\ Attempts[k].limit <= 5
             /\ k > 1 => /\ ~ Attempts[k - 1].ok
                         /\ Attempts[k].limit = Attempts[k - 1].limit - 1
             /\ k = Len(Attempts) => (Attempts[k].ok \/ Attempts[k].limit = 1)

C28_Witness ==
    /\ last.op = "get_prompt_generation_tab"
    /\ last.num_chunks > 5
    /\ Len(Attempts) = 5
    /\ Attempts[1].limit = 5
    /\ Attempts[5].limit = 1
    /\ ~ Attempts[5].ok

====
